---------------------------- MODULE Spec2Model ----------------------------
(***************************************************************************)
(* Model of the SVS de-identifier (svs.py): the in-place redaction of the  *)
(* label and macro pages of a TIFF-derived whole-slide image, the          *)
(* allow-list filter of the image descriptions, and deident_svs_file,      *)
(* which sequences them over a working copy.                               *)
(*                                                                         *)
(* A file is a sequence of bytes (0..255); file offsets are 0-based, so    *)
(* the byte at offset o is f[o + 1].  A str is the sequence of its         *)
(* character codes.                                                        *)
(***************************************************************************)
EXTENDS Integers, Sequences, FiniteSets, TLC

VARIABLES
    pc,            \* position of the running call
    segments,      \* the segments the description argument was joined from
    description,   \* argument of filter_description_whitelist
    filtered_description,  \* its outcome
    slide,         \* bytes of the file at slide_path
    call,          \* the last call of delete_associated_image and its outcome
    fs,            \* deident_svs_file: the files at the three paths
    args,          \* deident_svs_file: the parsed command-line arguments
    locals,        \* deident_svs_file: its local variables
    ret            \* deident_svs_file: what it returned

vars == <<pc, segments, description, filtered_description, slide, call, fs, args, locals, ret>>

(***************************************************************************)
(* Strings                                                                 *)
(***************************************************************************)
PIPE == 124     \* '|'
EQUALS == 61    \* '='
NUL == 0

\* The characters str.strip() removes, among the 7-bit ones.
Whitespace == {9, 10, 11, 12, 13, 28, 29, 30, 31, 32}

DESCRIPTION_KEY_WHITELIST ==
    { <<68, 97, 116, 101>>,                                        \* 'Date'
      <<84, 105, 109, 101>>,                                       \* 'Time'
      <<84, 105, 109, 101, 32, 90, 111, 110, 101>>,                \* 'Time Zone'
      <<65, 112, 112, 77, 97, 103>>,                               \* 'AppMag'
      <<77, 80, 80>>,                                              \* 'MPP'
      <<76, 101, 102, 116>>,                                       \* 'Left'
      <<84, 111, 112>>,                                            \* 'Top'
      <<82, 97, 99, 107>>,                                         \* 'Rack'
      <<83, 108, 105, 100, 101>>,                                  \* 'Slide'
      <<69, 120, 112, 111, 115, 117, 114, 101, 32, 83, 99, 97, 108, 101>>,  \* 'Exposure Scale'
      <<69, 120, 112, 111, 115, 117, 114, 101, 32, 84, 105, 109, 101>>,     \* 'Exposure Time'
      <<70, 105, 108, 116, 101, 114, 101, 100>>,                   \* 'Filtered'
      <<70, 111, 99, 117, 115, 32, 79, 102, 102, 115, 101, 116>>,  \* 'Focus Offset'
      <<71, 97, 109, 109, 97>>,                                    \* 'Gamma'
      <<83, 116, 114, 105, 112, 101, 87, 105, 100, 116, 104>>,     \* 'StripeWidth'
      <<83, 99, 97, 110, 110, 101, 114, 84, 121, 112, 101>>,       \* 'ScannerType'
      <<83, 101, 115, 115, 105, 111, 110, 77, 111, 100, 101>>,     \* 'SessionMode'
      <<67, 97, 108, 105, 98, 114, 97, 116, 105, 111, 110, 65, 118, 101, 114,
        97, 103, 101, 66, 108, 117, 101>>,                         \* 'CalibrationAverageBlue'
      <<67, 97, 108, 105, 98, 114, 97, 116, 105, 111, 110, 65, 118, 101, 114,
        97, 103, 101, 71, 114, 101, 101, 110>>,                    \* 'CalibrationAverageGreen'
      <<67, 97, 108, 105, 98, 114, 97, 116, 105, 111, 110, 65, 118, 101, 114,
        97, 103, 101, 82, 101, 100>>,                              \* 'CalibrationAverageRed'
      <<83, 99, 97, 110, 32, 87, 97, 114, 110, 105, 110, 103>> }   \* 'Scan Warning'

\* The least index of s holding c, or 0: str.find(c) + 1.
RECURSIVE FindFrom(_, _, _)
FindFrom(s, c, i) ==
    IF i > Len(s) THEN 0
    ELSE IF s[i] = c THEN i
    ELSE FindFrom(s, c, i + 1)

\* str.split(sep) for a one-character separator: every occurrence splits.
RECURSIVE Split(_, _)
Split(s, sep) ==
    LET i == FindFrom(s, sep, 1)
    IN  IF i = 0 THEN <<s>>
        ELSE <<SubSeq(s, 1, i - 1)>> \o Split(SubSeq(s, i + 1, Len(s)), sep)

\* sep.join(parts)
RECURSIVE Join(_, _)
Join(parts, sep) ==
    IF Len(parts) = 0 THEN <<>>
    ELSE IF Len(parts) = 1 THEN parts[1]
    ELSE parts[1] \o <<sep>> \o Join(Tail(parts), sep)

RECURSIVE LStrip(_)
LStrip(s) ==
    IF Len(s) > 0 /\ s[1] \in Whitespace THEN LStrip(Tail(s)) ELSE s

RECURSIVE RStrip(_)
RStrip(s) ==
    IF Len(s) > 0 /\ s[Len(s)] \in Whitespace
    THEN RStrip(SubSeq(s, 1, Len(s) - 1))
    ELSE s

\* A key compared as it stands: the strip() forgotten.
StripNone(s) == s

\* str.strip()
Strip(s) == RStrip(LStrip(s))

\* needle in haystack
Contains(haystack, needle) ==
    \E i \in 0..(Len(haystack) - Len(needle)) :
        SubSeq(haystack, i + 1, i + Len(needle)) = needle

\* The loop of filter_description_whitelist from segment i on; kept holds
\* filtered_desc_kv_pairs.  The assert raises at the first segment that does
\* not split in two.
RECURSIVE FilterLoop(_, _, _)
FilterLoop(desc_kv_pairs, i, kept) ==
    IF i > Len(desc_kv_pairs)
    THEN [ok |-> TRUE, value |-> Join(kept, PIPE)]
    ELSE LET entries == Split(desc_kv_pairs[i], EQUALS)
         IN  IF Len(entries) # 2
             THEN [ok |-> FALSE, value |-> <<>>]
             ELSE IF Strip(entries[1]) \in DESCRIPTION_KEY_WHITELIST
                  THEN FilterLoop(desc_kv_pairs, i + 1,
                           Append(kept, entries[1] \o <<EQUALS>> \o entries[2]))
                  ELSE FilterLoop(desc_kv_pairs, i + 1, kept)

filter_description_whitelist(d) ==
    LET desc_kv_pairs == Split(d, PIPE)
    IN  FilterLoop(desc_kv_pairs, 2, <<desc_kv_pairs[1]>>)

(***************************************************************************)
(* Files and the TIFF container                                            *)
(***************************************************************************)
\* t.tiff of a classic little-endian TIFF: '<I', '<H', and a 12-byte tag.
offsetsize == 4
tagnosize == 2
tagsize == 12

TIFF_IMAGE_DESCRIPTION_TAG_CODE == 270

\* The tag codes page.tags resolves the names to, and the data types.
TagCode == [BitsPerSample |-> 258, StripOffsets |-> 273, StripByteCounts |-> 279,
            TileOffsets |-> 324, TileByteCounts |-> 325]
DataType == [ASCII |-> 2, SHORT |-> 3, LONG |-> 4]

DataSize(dtype) == CASE dtype = 3 -> 2 [] dtype = 4 -> 4 [] OTHER -> 1

Max(a, b) == IF a > b THEN a ELSE b

Zeros(n) == [i \in 1..n |-> 0]

\* b'\0' * n with one byte too many.
ZerosOneMore(n) == [i \in 1..(n + 1) |-> 0]

\* b'\0' * n
ZeroBytes(n) == Zeros(n)

\* struct.unpack('<H', ...) and struct.unpack('<I', ...) of the bytes at off.
U16(f, off) == f[off + 1] + 256 * f[off + 2]
U32(f, off) == f[off + 1] + 256 * f[off + 2] + 65536 * f[off + 3] + 16777216 * f[off + 4]

\* struct.pack('<H', v) and struct.pack('<I', v)
Pack16(v) == <<v % 256, (v \div 256) % 256>>
Pack32(v) == <<v % 256, (v \div 256) % 256, (v \div 65536) % 256, (v \div 16777216) % 256>>

\* fp.seek(pos); fp.write(some_bytes): the bytes replace what is there, and a
\* write past the end extends the file (a gap reads as zeros).
write_bytes_with_debug(f, pos, some_bytes) ==
    IF Len(some_bytes) = 0 THEN f
    ELSE (IF pos <= Len(f) THEN SubSeq(f, 1, pos) ELSE f \o Zeros(pos - Len(f)))
         \o some_bytes
         \o SubSeq(f, pos + Len(some_bytes) + 1, Len(f))

\* One entry of a page's tag table, as tifffile reads it: the value lies in
\* the entry when it fits the offset field, else where the field points.
TagAt(f, pos) ==
    LET dtype == U16(f, pos + 2)
        count == U32(f, pos + 4)
    IN  [code |-> U16(f, pos),
         dtype |-> dtype,
         count |-> count,
         offset |-> pos,
         valueoffset |-> IF count * DataSize(dtype) > offsetsize
                         THEN U32(f, pos + 8)
                         ELSE pos + 8]

\* One page: the offset of its IFD and its tags in file order.
PageAt(f, off) ==
    [offset |-> off,
     tags |-> [k \in 1..U16(f, off) |-> TagAt(f, off + tagnosize + (k - 1) * tagsize)]]

\* t.pages: the pages the chain from the header's first-IFD offset links.
RECURSIVE PagesFrom(_, _, _)
PagesFrom(f, off, fuel) ==
    IF off = 0 \/ fuel = 0 \/ off + tagnosize > Len(f) THEN <<>>
    ELSE LET p == PageAt(f, off)
         IN  <<p>> \o PagesFrom(f, U32(f, off + tagnosize + Len(p.tags) * tagsize), fuel - 1)

Pages(f) == PagesFrom(f, U32(f, 4), Len(f))

HasTag(page, code) == \E k \in 1..Len(page.tags) : page.tags[k].code = code

\* page.tags[name]
Tag(page, code) == page.tags[CHOOSE k \in 1..Len(page.tags) : page.tags[k].code = code]

\* The bytes a tag's value takes in the file.
ValueByteCount(tag) == tag.count * DataSize(tag.dtype)

\* tag.value of an array of LONG
LongValues(f, tag) == [k \in 1..tag.count |-> U32(f, tag.valueoffset + (k - 1) * 4)]

\* page.description: the ImageDescription up to its NUL, '' without the tag.
Description(f, page) ==
    IF ~HasTag(page, TIFF_IMAGE_DESCRIPTION_TAG_CODE) THEN <<>>
    ELSE LET tag == Tag(page, TIFF_IMAGE_DESCRIPTION_TAG_CODE)
             raw == SubSeq(f, tag.valueoffset + 1, tag.valueoffset + tag.count)
             z == FindFrom(raw, NUL, 1)
         IN  IF z = 0 THEN raw ELSE SubSeq(raw, 1, z - 1)

\* The bytes of the segments (strips or tiles) a page's pixels are read from.
RECURSIVE ReadSegments(_, _, _, _)
ReadSegments(f, offsets, bytecounts, i) ==
    IF i > Len(offsets) \/ i > Len(bytecounts) THEN <<>>
    ELSE SubSeq(f, offsets[i] + 1, offsets[i] + bytecounts[i])
         \o ReadSegments(f, offsets, bytecounts, i + 1)

\* page.asarray(): the pixels, here the stored bytes of the strips or tiles.
AsArray(f, page) ==
    IF HasTag(page, TagCode.StripOffsets)
    THEN ReadSegments(f, LongValues(f, Tag(page, TagCode.StripOffsets)),
                         LongValues(f, Tag(page, TagCode.StripByteCounts)), 1)
    ELSE ReadSegments(f, LongValues(f, Tag(page, TagCode.TileOffsets)),
                         LongValues(f, Tag(page, TagCode.TileByteCounts)), 1)

(***************************************************************************)
(* Well-formed containers: the files the calls are made on                 *)
(***************************************************************************)
\* A page to lay out: hasdescr, descr, strips (the pixel bytes of each
\* strip or tile), tiled.
NumTags(ps) == 3 + (IF ps.hasdescr THEN 1 ELSE 0)
IfdSize(ps) == tagnosize + NumTags(ps) * tagsize + offsetsize
DescrBytes(ps) == ps.descr \o <<NUL>>
DescrOut(ps) == IF ps.hasdescr /\ Len(DescrBytes(ps)) > offsetsize THEN Len(DescrBytes(ps)) ELSE 0
ArrayOut(ps) == IF Len(ps.strips) > 1 THEN 4 * Len(ps.strips) ELSE 0

RECURSIVE Concat(_)
Concat(ss) == IF Len(ss) = 0 THEN <<>> ELSE ss[1] \o Concat(Tail(ss))

RECURSIVE SumLen(_, _)
SumLen(ss, n) == IF n = 0 THEN 0 ELSE Len(ss[n]) + SumLen(ss, n - 1)

PageSize(ps) == IfdSize(ps) + 6 + DescrOut(ps) + 2 * ArrayOut(ps) + SumLen(ps.strips, Len(ps.strips))

Pad4(bs) == bs \o Zeros(4 - Len(bs))

Entry(code, dtype, count, field) == Pack16(code) \o Pack16(dtype) \o Pack32(count) \o field

\* The bytes of one page laid out at base; next is the offset of the page after it.
PageBytes(ps, base, next) ==
    LET n == Len(ps.strips)
        bpsAt == base + IfdSize(ps)
        descrAt == bpsAt + 6
        offsAt == descrAt + DescrOut(ps)
        cntsAt == offsAt + ArrayOut(ps)
        dataAt == cntsAt + ArrayOut(ps)
        stripOff == [k \in 1..n |-> dataAt + SumLen(ps.strips, k - 1)]
        stripLen == [k \in 1..n |-> Len(ps.strips[k])]
        offCode == IF ps.tiled THEN TagCode.TileOffsets ELSE TagCode.StripOffsets
        cntCode == IF ps.tiled THEN TagCode.TileByteCounts ELSE TagCode.StripByteCounts
        descrEntry ==
            IF ~ps.hasdescr THEN <<>>
            ELSE Entry(TIFF_IMAGE_DESCRIPTION_TAG_CODE, DataType.ASCII, Len(DescrBytes(ps)),
                       IF DescrOut(ps) > 0 THEN Pack32(descrAt) ELSE Pad4(DescrBytes(ps)))
    IN  Pack16(NumTags(ps))
        \o Entry(TagCode.BitsPerSample, DataType.SHORT, 3, Pack32(bpsAt))
        \o descrEntry
        \o Entry(offCode, DataType.LONG, n, IF n > 1 THEN Pack32(offsAt) ELSE Pack32(stripOff[1]))
        \o Entry(cntCode, DataType.LONG, n, IF n > 1 THEN Pack32(cntsAt) ELSE Pack32(stripLen[1]))
        \o Pack32(next)
        \o Pack16(8) \o Pack16(8) \o Pack16(8)
        \o (IF DescrOut(ps) > 0 THEN DescrBytes(ps) ELSE <<>>)
        \o (IF n > 1 THEN Concat([k \in 1..n |-> Pack32(stripOff[k])]) ELSE <<>>)
        \o (IF n > 1 THEN Concat([k \in 1..n |-> Pack32(stripLen[k])]) ELSE <<>>)
        \o Concat(ps.strips)

RECURSIVE LayOut(_, _, _)
LayOut(specs, i, base) ==
    IF i > Len(specs) THEN <<>>
    ELSE LET next == IF i = Len(specs) THEN 0 ELSE base + PageSize(specs[i])
         IN  PageBytes(specs[i], base, next) \o LayOut(specs, i + 1, base + PageSize(specs[i]))

\* 'II', 42, the offset of the first IFD, then the pages one after another.
Container(specs) == <<73, 73, 42, 0>> \o Pack32(8) \o LayOut(specs, 1, 8)

AperioImageLibrary ==
    <<65, 112, 101, 114, 105, 111, 32, 73, 109, 97, 103, 101, 32, 76, 105, 98, 114, 97, 114, 121>>
AperioGT450 ==
    <<65, 112, 101, 114, 105, 111, 32, 76, 101, 105, 99, 97, 32, 66, 105, 111, 115, 121,
      115, 116, 101, 109, 115, 32, 71, 84, 52, 53, 48>>
LabelType == <<108, 97, 98, 101, 108>>                          \* 'label'
MacroType == <<109, 97, 99, 114, 111>>                          \* 'macro'
ThumbnailType == <<116, 104, 117, 109, 98, 110, 97, 105, 108>>  \* 'thumbnail'

PageSpec(hasdescr, descr, strips, tiled) ==
    [hasdescr |-> hasdescr, descr |-> descr, strips |-> strips, tiled |-> tiled]

\* The first page of a container: the main image.
FirstPages ==
    { \* 'Aperio Image Library|Top=1|User=x'
      PageSpec(TRUE, AperioImageLibrary \o <<124, 84, 111, 112, 61, 49, 124, 85, 115, 101, 114, 61, 120>>,
               << <<201, 202>> >>, FALSE),
      PageSpec(TRUE, AperioGT450, << <<201, 202>> >>, FALSE),
      \* 'X': neither family
      PageSpec(TRUE, <<88>>, << <<201, 202>> >>, FALSE),
      \* 'label': neither family, and the first page itself matches
      PageSpec(TRUE, LabelType, << <<201, 202>> >>, FALSE) }

\* The pages after it.
LaterPages ==
    { \* 'label 1|Date=1', one strip
      PageSpec(TRUE, LabelType \o <<32, 49, 124, 68, 97, 116, 101, 61, 49>>, << <<11, 12, 13>> >>, FALSE),
      \* 'macro|MPP=2|ID=7', two strips
      PageSpec(TRUE, MacroType \o <<124, 77, 80, 80, 61, 50, 124, 73, 68, 61, 55>>,
               << <<21, 22>>, <<23, 24>> >>, FALSE),
      \* 'macro', tiled
      PageSpec(TRUE, MacroType, << <<31, 32>>, <<33, 34>> >>, TRUE),
      \* 'x|y': a segment without '=', two strips
      PageSpec(TRUE, <<120, 124, 121>>, << <<51>>, <<52>> >>, FALSE),
      \* no description, two strips
      PageSpec(FALSE, <<>>, << <<41>>, <<42, 43>> >>, FALSE) }

MaxPages == 3

Containers ==
    { Container(<<first>> \o later) :
        first \in FirstPages,
        later \in UNION { [1..n -> LaterPages] : n \in 0..(MaxPages - 1) } }

(***************************************************************************)
(* The filter on its own: descriptions joined from up to MaxSegments       *)
(* segments of a catalogue.                                                *)
(***************************************************************************)
MaxSegments == 4

SegmentCatalogue ==
    { <<65, 112, 101, 114, 105, 111, 32, 73, 109, 97, 103, 101>>,              \* 'Aperio Image'
      <<68, 97, 116, 101, 61, 49, 47, 49>>,                                    \* 'Date=1/1'
      <<83, 99, 97, 110, 83, 99, 111, 112, 101, 32, 73, 68, 61, 65, 49>>,      \* 'ScanScope ID=A1'
      <<32, 77, 80, 80, 32, 61, 32, 50>>,                                      \* ' MPP = 2'
      <<65, 112, 112, 77, 97, 103, 61, 50, 48>>,                               \* 'AppMag=20'
      <<97, 112, 112, 109, 97, 103, 61, 50, 48>>,                              \* 'appmag=20'
      <<66, 97, 100>>,                                                         \* 'Bad'
      <<88, 61, 65, 61, 66>>,                                                  \* 'X=A=B'
      <<>> }                                                                   \* ''

NotRun == [ok |-> FALSE, value |-> <<-1>>]

Idle == [op |-> "idle", image_type |-> <<>>, keep_image_entry |-> FALSE, before |-> <<>>,
         raised |-> "", found |-> FALSE, target |-> 0, image |-> <<>>]

InitFilter ==
    /\ pc = "filter"
    /\ segments \in UNION { [1..n -> SegmentCatalogue] : n \in 1..MaxSegments }
    /\ description = Join(segments, PIPE)
    /\ filtered_description = NotRun
    /\ slide = <<>>
    /\ call = Idle
    /\ fs = <<>>
    /\ args = <<>>
    /\ locals = <<>>
    /\ ret = "none"

FilterDescription ==
    /\ pc = "filter"
    /\ filtered_description' = filter_description_whitelist(description)
    /\ pc' = "filtered"
    /\ UNCHANGED <<segments, description, slide, call, fs, args, locals, ret>>

NextFilter == FilterDescription

SpecFilter == InitFilter /\ [][NextFilter]_vars

\* How many '=' a segment holds.
CountEquals(s) == Cardinality({i \in 1..Len(s) : s[i] = EQUALS})

\* The text of a segment before its first '=', trimmed.
TrimmedKey(s) ==
    LET e == CHOOSE i \in 1..Len(s) : s[i] = EQUALS /\ \A j \in 1..(i - 1) : s[j] # EQUALS
        inner == {i \in 1..(e - 1) : s[i] \notin Whitespace}
    IN  IF inner = {} THEN <<>>
        ELSE SubSeq(s, CHOOSE i \in inner : \A j \in inner : i <= j,
                       CHOOSE i \in inner : \A j \in inner : i >= j)

KeyAllowed(s) == TrimmedKey(s) \in DESCRIPTION_KEY_WHITELIST

\* The reference of the description filter, on the segments themselves.
Reference(segs) ==
    IF \E i \in 2..Len(segs) : CountEquals(segs[i]) # 1
    THEN [ok |-> FALSE, value |-> <<>>]
    ELSE [ok |-> TRUE,
          value |-> Join(<<segs[1]>> \o SelectSeq(Tail(segs), KeyAllowed), PIPE)]

\* C8: filter_description_whitelist agrees with the reference on every
\* description: it fails iff a later segment has zero or several '=', and
\* otherwise returns the first segment followed by the later segments whose
\* trimmed key is on the allow-list, byte-identical and in order, joined by '|'.
C8_FilterAgreesWithReference ==
    pc = "filtered" => filtered_description = Reference(segments)

\* 'Aperio Image|Date=1/1|ScanScope ID=A1|AppMag=20' has been filtered to
\* 'Aperio Image|Date=1/1|AppMag=20'.
C8_Witness ==
    /\ pc = "filtered"
    /\ segments = << <<65, 112, 101, 114, 105, 111, 32, 73, 109, 97, 103, 101>>,
                     <<68, 97, 116, 101, 61, 49, 47, 49>>,
                     <<83, 99, 97, 110, 83, 99, 111, 112, 101, 32, 73, 68, 61, 65, 49>>,
                     <<65, 112, 112, 77, 97, 103, 61, 50, 48>> >>
    /\ filtered_description.ok
    /\ filtered_description.value = <<65, 112, 101, 114, 105, 111, 32, 73, 109, 97, 103, 101, 124,
                          68, 97, 116, 101, 61, 49, 47, 49, 124,
                          65, 112, 112, 77, 97, 103, 61, 50, 48>>

(***************************************************************************)
(* delete_associated_image                                                 *)
(***************************************************************************)
allowed_image_types == {LabelType, MacroType}

\* What a call leaves: the exception it raised ("" when it returned), whether a
\* page was found (the return value is its image, else None), the offset of
\* that page, and the bytes of the file afterwards.
Raised(f, what) == [raised |-> what, found |-> FALSE, target |-> 0, image |-> <<>>, file |-> f]
ReturnedNone(f) == [raised |-> "", found |-> FALSE, target |-> 0, image |-> <<>>, file |-> f]
Returned(f, page, image) ==
    [raised |-> "", found |-> TRUE, target |-> page.offset, image |-> image, file |-> f]

\* [page for page in t.pages if image_type in page.description]
MatchingPages(f, pages, image_type) ==
    SelectSeq(pages, LAMBDA page : Contains(Description(f, page), image_type))

\* filtered_pages, or the IndexError of t.pages[-2] and t.pages[-1].
FilteredPages(f, pages, image_type) ==
    LET first_page == pages[1]
    IN  IF Contains(Description(f, first_page), AperioImageLibrary)
        THEN [raised |-> "", pages |-> MatchingPages(f, pages, image_type)]
        ELSE IF Contains(Description(f, first_page), AperioGT450)
        THEN IF image_type = LabelType
             THEN IF Len(pages) < 2
                  THEN [raised |-> "IndexError", pages |-> <<>>]
                  ELSE [raised |-> "", pages |-> <<pages[Len(pages) - 1]>>]
             ELSE [raised |-> "", pages |-> <<pages[Len(pages)]>>]
        ELSE [raised |-> "", pages |-> MatchingPages(f, pages, image_type)]

\* ifds: for each page its offset, where its next-IFD pointer lies and what
\* the pointer holds, read back from the file.
Ifds(f, pages) ==
    [k \in 1..Len(pages) |->
        LET this == pages[k].offset
            num_tags == U16(f, this)
            next_ifd_offset == this + tagnosize + num_tags * tagsize
        IN  [this |-> this,
             next_ifd_offset |-> next_ifd_offset,
             next_ifd_value |-> U32(f, next_ifd_offset)]]

\* Only the first strip erased.
ZeroFirstStripOnly(f, offsets, bytecounts, i) ==
    IF Len(offsets) = 0 \/ Len(bytecounts) = 0 THEN f
    ELSE write_bytes_with_debug(f, offsets[1], ZeroBytes(bytecounts[1]))

\* for (o, b) in zip(offsets, bytecounts): seek(o); write(b'\0' * b)
RECURSIVE ZeroStrips(_, _, _, _)
ZeroStrips(f, offsets, bytecounts, i) ==
    IF i > Len(offsets) \/ i > Len(bytecounts) THEN f
    ELSE ZeroStrips(write_bytes_with_debug(f, offsets[i], ZeroBytes(bytecounts[i])),
                    offsets, bytecounts, i + 1)

\* for key, tag in page.tags.items(): seek(tag.valueoffset); write(b'\0' * tag.count)
RECURSIVE ZeroTagValues(_, _, _)
ZeroTagValues(f, tags, k) ==
    IF k > Len(tags) THEN f
    ELSE ZeroTagValues(write_bytes_with_debug(f, tags[k].valueoffset, ZeroBytes(tags[k].count)),
                       tags, k + 1)

\* The entry zeroed but the previous page's pointer left as it was.
DropEntryNoRelink(f, page, pageifd, previfd) ==
    LET f1 == ZeroTagValues(f, page.tags, 1)
        pagebytes == (pageifd.next_ifd_offset - pageifd.this) + offsetsize
    IN  write_bytes_with_debug(f1, pageifd.this, ZeroBytes(pagebytes))

\* if not keep_image_entry: the tag values, the page header, then the
\* previous page's pointer.
DropEntry(f, page, pageifd, previfd) ==
    LET f1 == ZeroTagValues(f, page.tags, 1)
        pagebytes == (pageifd.next_ifd_offset - pageifd.this) + offsetsize
        f2 == write_bytes_with_debug(f1, pageifd.this, ZeroBytes(pagebytes))
    IN  write_bytes_with_debug(f2, previfd.next_ifd_offset, Pack32(pageifd.next_ifd_value))

\* The strips erased before anything is checked.
RedactWriteFirst(f, pages, page, keep_image_entry) ==
    LET image == AsArray(f, page)
        ifds == Ifds(f, pages)
        pageifd == ifds[CHOOSE k \in 1..Len(ifds) : ifds[k].this = page.offset]
        previfd == SelectSeq(ifds, LAMBDA i : i.next_ifd_value = page.offset)
        striped == HasTag(page, TagCode.StripOffsets) /\ HasTag(page, TagCode.StripByteCounts)
        f1 == IF striped
              THEN ZeroStrips(f, LongValues(f, Tag(page, TagCode.StripOffsets)),
                                 LongValues(f, Tag(page, TagCode.StripByteCounts)), 1)
              ELSE f
    IN  IF Len(previfd) = 0 THEN Raised(f1, "No page points to this one")
        ELSE IF ~striped THEN Raised(f1, "KeyError")
        ELSE IF keep_image_entry THEN Returned(f1, page, image)
        ELSE Returned(DropEntry(f1, page, pageifd, previfd[1]), page, image)

\* Exactly one page was identified: read its image, find the page pointing
\* to it, erase the strips and, unless the entry is kept, the entry.
Redact(f, pages, page, keep_image_entry) ==
    LET image == AsArray(f, page)
        ifds == Ifds(f, pages)
        pageifd == ifds[CHOOSE k \in 1..Len(ifds) : ifds[k].this = page.offset]
        previfd == SelectSeq(ifds, LAMBDA i : i.next_ifd_value = page.offset)
    IN  IF Len(previfd) = 0 THEN Raised(f, "No page points to this one")
        ELSE IF ~HasTag(page, TagCode.StripOffsets) \/ ~HasTag(page, TagCode.StripByteCounts)
        THEN Raised(f, "KeyError")
        ELSE LET offsets == LongValues(f, Tag(page, TagCode.StripOffsets))
                 bytecounts == LongValues(f, Tag(page, TagCode.StripByteCounts))
                 f1 == ZeroStrips(f, offsets, bytecounts, 1)
             IN  IF keep_image_entry THEN Returned(f1, page, image)
                 ELSE Returned(DropEntry(f1, page, pageifd, previfd[1]), page, image)

\* The first of several matches taken instead of the call failing.
SelectFirst(f, pages, filtered_pages, image_type, keep_image_entry) ==
    IF Len(filtered_pages) = 0 THEN ReturnedNone(f)
    ELSE Redact(f, pages, filtered_pages[1], keep_image_entry)

\* num_results = len(filtered_pages): several fail, none returns None, one is redacted.
SelectOne(f, pages, filtered_pages, image_type, keep_image_entry) ==
    IF Len(filtered_pages) > 1 THEN Raised(f, "duplicate associated images found")
    ELSE IF Len(filtered_pages) = 0 THEN ReturnedNone(f)
    ELSE Redact(f, pages, filtered_pages[1], keep_image_entry)

delete_associated_image(f, image_type, keep_image_entry) ==
    IF image_type \notin allowed_image_types
    THEN Raised(f, "Invalid image type requested for deletion")
    ELSE LET pages == Pages(f)
             filtered == FilteredPages(f, pages, image_type)
         IN  IF filtered.raised # "" THEN Raised(f, filtered.raised)
             ELSE SelectOne(f, pages, filtered.pages, image_type, keep_image_entry)

(***************************************************************************)
(* Calls of delete_associated_image on a container                         *)
(***************************************************************************)
Init ==
    /\ pc = "ready"
    /\ slide \in Containers
    /\ call = Idle
    /\ segments = <<>>
    /\ description = <<>>
    /\ filtered_description = NotRun
    /\ fs = <<>>
    /\ args = <<>>
    /\ locals = <<>>
    /\ ret = "none"

DeleteAssociatedImage(image_type, keep_image_entry) ==
    /\ pc = "ready"
    /\ \E r \in {delete_associated_image(slide, image_type, keep_image_entry)} :
           /\ slide' = r.file
           /\ call' = [op |-> "delete", image_type |-> image_type,
                       keep_image_entry |-> keep_image_entry, before |-> slide,
                       raised |-> r.raised, found |-> r.found, target |-> r.target,
                       image |-> r.image]
    /\ UNCHANGED <<pc, segments, description, filtered_description, fs, args, locals, ret>>

Next ==
    \E image_type \in {LabelType, MacroType, ThumbnailType}, keep_image_entry \in BOOLEAN :
        DeleteAssociatedImage(image_type, keep_image_entry)

Spec == Init /\ [][Next]_vars

(***************************************************************************)
(* Properties of delete_associated_image (under Spec)                      *)
(***************************************************************************)
\* The call returned the image of the one page it identified.
Succeeded == call.op = "delete" /\ call.raised = "" /\ call.found

Offsets(pages) == [k \in 1..Len(pages) |-> pages[k].offset]

\* The value of the next-IFD pointer of the page whose IFD is at off.
NextPointer(f, off) == U32(f, off + 2 + 12 * U16(f, off))

\* The index of the page at offset off among pages.
IndexOf(pages, off) == CHOOSE k \in 1..Len(pages) : pages[k].offset = off

\* s without its k-th element.
Without(s, k) == SubSeq(s, 1, k - 1) \o SubSeq(s, k + 1, Len(s))

\* The file offsets inside the strips of page.
StripRange(f, page) ==
    LET offsets == LongValues(f, Tag(page, TagCode.StripOffsets))
        bytecounts == LongValues(f, Tag(page, TagCode.StripByteCounts))
    IN  UNION { offsets[k]..(offsets[k] + bytecounts[k] - 1) : k \in 1..Len(offsets) }

\* The file offsets inside the values of the tags of page, each taken at
\* its full length: element count times element size.
TagValueRange(page) ==
    UNION { page.tags[k].valueoffset..(page.tags[k].valueoffset + ValueByteCount(page.tags[k]) - 1) :
              k \in 1..Len(page.tags) }

\* C1: after a successful call with keep_image_entry=False on a container of
\* N pages the chain from the root has N-1 pages: every page but the target,
\* in order and at its offset; the target's offset is no longer reachable and
\* its predecessor's next pointer holds the target's former next_ifd_value.
C1_DropUnlinksTarget ==
    (Succeeded /\ ~call.keep_image_entry) =>
        LET before == Pages(call.before)
            after == Pages(slide)
            t == IndexOf(before, call.target)
        IN  /\ Len(after) = Len(before) - 1
            /\ Offsets(after) = Without(Offsets(before), t)
            /\ \A k \in 1..Len(after) : after[k].offset # call.target
            /\ t > 1
            /\ NextPointer(slide, before[t - 1].offset) = NextPointer(call.before, call.target)

\* A page with a page after it has been dropped from a chain of three.
C1_Witness ==
    /\ Succeeded /\ ~call.keep_image_entry
    /\ Len(Pages(call.before)) = 3
    /\ NextPointer(call.before, call.target) # 0
    /\ Offsets(Pages(slide)) = <<8, NextPointer(call.before, call.target)>>

\* C2: after a successful call with keep_image_entry=True the chain still has
\* all its pages with their next pointers, every byte of the target's strips
\* is zero, and every byte outside those strips is unchanged.
C2_KeepEntryZeroesOnlyStrips ==
    (Succeeded /\ call.keep_image_entry) =>
        LET before == Pages(call.before)
            strips == StripRange(call.before, before[IndexOf(before, call.target)])
        IN  /\ Offsets(Pages(slide)) = Offsets(before)
            /\ \A k \in 1..Len(before) :
                   NextPointer(slide, before[k].offset) = NextPointer(call.before, before[k].offset)
            /\ Len(slide) = Len(call.before)
            /\ \A o \in 0..(Len(slide) - 1) :
                   IF o \in strips THEN slide[o + 1] = 0 ELSE slide[o + 1] = call.before[o + 1]

\* The two strips of a page, non-zero before, have been zeroed with the entry kept.
C2_Witness ==
    /\ Succeeded /\ call.keep_image_entry
    /\ LET before == Pages(call.before)
           page == before[IndexOf(before, call.target)]
       IN  /\ Tag(page, TagCode.StripOffsets).count = 2
           /\ \A o \in StripRange(call.before, page) : call.before[o + 1] # 0 /\ slide[o + 1] = 0

\* C3: the file is as long after any call of delete_associated_image as before.
C3_FileLengthUnchanged ==
    call.op = "delete" => Len(slide) = Len(call.before)

\* The last page, whose strips end the file, has been dropped and the file
\* has kept its length.
C3_Witness ==
    /\ Succeeded /\ ~call.keep_image_entry
    /\ NextPointer(call.before, call.target) = 0
    /\ Len(call.before) - 1 \in StripRange(call.before, Pages(call.before)[Len(Pages(call.before))])
    /\ slide[Len(slide)] = 0
    /\ Len(slide) = Len(call.before)

\* The pages whose description contains the requested type.
Matching(f, image_type) ==
    {k \in 1..Len(Pages(f)) : Contains(Description(f, Pages(f)[k]), image_type)}

SelectsByPosition(f) ==
    /\ ~Contains(Description(f, Pages(f)[1]), AperioImageLibrary)
    /\ Contains(Description(f, Pages(f)[1]), AperioGT450)

\* C7: when more than one page matches the requested type under the
\* description heuristic, the call fails with the duplicate error and the
\* file is not modified.
C7_DuplicateFailsUnmodified ==
    ( /\ call.op = "delete"
      /\ call.image_type \in allowed_image_types
      /\ ~SelectsByPosition(call.before)
      /\ Cardinality(Matching(call.before, call.image_type)) > 1 ) =>
        /\ call.raised = "duplicate associated images found"
        /\ slide = call.before

\* Two label pages under 'Aperio Image Library': the call failed.
C7_Witness ==
    /\ call.op = "delete"
    /\ call.image_type = LabelType
    /\ Contains(Description(call.before, Pages(call.before)[1]), AperioImageLibrary)
    /\ Cardinality(Matching(call.before, LabelType)) = 2
    /\ call.raised = "duplicate associated images found"

\* C9: after a successful call with keep_image_entry=False every byte of
\* every tag value of the target page, over the value's full length (element
\* count times element size), is zero.
C9_TagValuesFullyZeroed ==
    (Succeeded /\ ~call.keep_image_entry) =>
        LET before == Pages(call.before)
        IN  \A o \in TagValueRange(before[IndexOf(before, call.target)]) : slide[o + 1] = 0

\* C10: a call that raises leaves every byte of the file as it was, and no
\* call changes a byte of the strips of the first page of the chain.
C10_FailureWritesNothing ==
    call.op = "delete" =>
        /\ call.raised # "" => slide = call.before
        /\ \A o \in StripRange(call.before, Pages(call.before)[1]) :
               slide[o + 1] = call.before[o + 1]

\* The first page was the one identified, with the entry to be kept: the call
\* failed for want of a page pointing to it and its strips are intact.
C10_Witness ==
    /\ call.op = "delete"
    /\ call.keep_image_entry
    /\ call.raised = "No page points to this one"
    /\ 1 \in Matching(call.before, call.image_type)
    /\ \E o \in StripRange(call.before, Pages(call.before)[1]) : slide[o + 1] # 0
    /\ slide = call.before

(***************************************************************************)
(* filter_image_description_tag_whitelist                                  *)
(***************************************************************************)
\* tag.overwrite(value) of tifffile for an ASCII tag: the value, NUL
\* terminated, goes into the entry when it fits the offset field; else over
\* the old value when it is no longer than it or the old value ends the
\* file; else to the end of the file, at an even offset.  The old bytes left
\* over are erased.
Overwrite(f, tag, value) ==
    LET packedvalue == value \o <<NUL>>
        count == Len(packedvalue)
        newsize == Len(packedvalue)
        oldsize == ValueByteCount(tag)
        inlined == write_bytes_with_debug(f, tag.offset + 4,
                       Pack32(count) \o packedvalue \o Zeros(offsetsize - newsize))
        atend == Len(f) + (Len(f) % 2)
        appended(g) == write_bytes_with_debug(
                           write_bytes_with_debug(g, tag.offset + 4, Pack32(count) \o Pack32(atend)),
                           atend, packedvalue)
    IN  IF oldsize <= offsetsize
        THEN IF newsize <= offsetsize THEN inlined ELSE appended(f)
        ELSE IF newsize <= offsetsize
        THEN write_bytes_with_debug(inlined, tag.valueoffset, Zeros(oldsize))
        ELSE IF newsize <= oldsize \/ tag.valueoffset + oldsize = Len(f)
        THEN write_bytes_with_debug(
                 write_bytes_with_debug(f, tag.offset + 4, Pack32(count)),
                 tag.valueoffset, packedvalue \o Zeros(oldsize - newsize))
        ELSE appended(write_bytes_with_debug(f, tag.valueoffset, Zeros(oldsize)))

\* The loop over t.pages from page k on: each ImageDescription is filtered
\* and overwritten in turn, so a description that fails to parse raises with
\* the pages before it already rewritten.  tags collects identified_tags.
RECURSIVE FilterPages(_, _, _, _)
FilterPages(f, pages, k, tags) ==
    IF k > Len(pages) THEN [raised |-> "", file |-> f, identified_tags |-> tags]
    ELSE IF ~HasTag(pages[k], TIFF_IMAGE_DESCRIPTION_TAG_CODE)
    THEN FilterPages(f, pages, k + 1, tags)
    ELSE LET tag == Tag(pages[k], TIFF_IMAGE_DESCRIPTION_TAG_CODE)
             value == Description(f, pages[k])
             fd == filter_description_whitelist(value)
         IN  IF ~fd.ok THEN [raised |-> "AssertionError", file |-> f, identified_tags |-> tags]
             ELSE FilterPages(Overwrite(f, tag, fd.value), pages, k + 1,
                              Append(tags, <<k - 1, value>>))

filter_image_description_tag_whitelist(f) == FilterPages(f, Pages(f), 1, <<>>)

(***************************************************************************)
(* deident_svs_file                                                        *)
(***************************************************************************)
original_file_path == "ident/slide.svs"
deident_file_path == "deident/deident_slide.svs"

\* The working copy written straight to the output path.
tmp_file_at_output == deident_file_path

\* os.path.join(dst_path, str(uuid.uuid1()))
tmp_file == "deident/uuid1"

label_png == "label_slide.svs.png"
macro_png == "macro_slide.svs.png"
metadata_json == "slide.svs.json"

Paths == {original_file_path, deident_file_path, tmp_file, label_png, macro_png, metadata_json}

Absent == [exists |-> FALSE, data |-> <<>>]
File(data) == [exists |-> TRUE, data |-> data]

None == [none |-> TRUE, data |-> <<>>]
Image(r) == IF r.found THEN [none |-> FALSE, data |-> r.image] ELSE None

RedactionSteps == {"copy", "filter", "label", "macro"}

InitOrch ==
    /\ pc = "copy"
    /\ \E c \in Containers :
           fs = [p \in Paths |-> IF p = original_file_path THEN File(c) ELSE Absent]
    /\ args \in [label_image_path : BOOLEAN, macro_image_path : BOOLEAN,
                 identified_metadata_path : BOOLEAN, hash_after : {0, 1}]
    /\ locals = [label_image |-> None, macro_image |-> None, identified_tags |-> <<>>,
                 hash_sha1_before |-> <<>>, hash_sha1_after |-> <<>>,
                 completed |-> {}, failed |-> ""]
    /\ ret = "none"
    /\ slide = <<>>
    /\ call = Idle
    /\ segments = <<>>
    /\ description = <<>>
    /\ filtered_description = NotRun

\* except: traceback.print_exc(); return False
Except(step) ==
    /\ pc' = "returned"
    /\ ret' = "False"
    /\ locals' = [locals EXCEPT !.failed = step]

Completed(step, l) == [l EXCEPT !.completed = @ \cup {step}]

\* hash_sha1_before = copy_with_hash(original_file_path, tmp_file)
CopyWithHash ==
    /\ pc = "copy"
    /\ fs' = [fs EXCEPT ![tmp_file] = File(fs[original_file_path].data)]
    /\ locals' = Completed("copy", [locals EXCEPT !.hash_sha1_before = fs[original_file_path].data])
    /\ pc' = "filter"
    /\ UNCHANGED <<ret, args, slide, call, segments, description, filtered_description>>

\* identified_tags = filter_image_description_tag_whitelist(tmp_file)
FilterDescriptionTags ==
    /\ pc = "filter"
    /\ \E r \in {filter_image_description_tag_whitelist(fs[tmp_file].data)} :
           /\ fs' = [fs EXCEPT ![tmp_file] = File(r.file)]
           /\ IF r.raised # ""
              THEN Except("filter")
              ELSE /\ locals' = Completed("filter", [locals EXCEPT !.identified_tags = r.identified_tags])
                   /\ pc' = "label"
                   /\ UNCHANGED ret
    /\ UNCHANGED <<args, slide, call, segments, description, filtered_description>>

\* label_image = delete_associated_image(tmp_file, 'label', keep_image_entry=True)
DeleteLabel ==
    /\ pc = "label"
    /\ \E r \in {delete_associated_image(fs[tmp_file].data, LabelType, TRUE)} :
           /\ fs' = [fs EXCEPT ![tmp_file] = File(r.file)]
           /\ IF r.raised # ""
              THEN Except("label")
              ELSE /\ locals' = Completed("label", [locals EXCEPT !.label_image = Image(r)])
                   /\ pc' = "save_label"
                   /\ UNCHANGED ret
    /\ UNCHANGED <<args, slide, call, segments, description, filtered_description>>

\* save_label_macro_image: nothing without a target path; else
\* Image.fromarray(image) raises on None, and the PNG is written otherwise.
SaveImage(step, target_path_or_none, image, png, then) ==
    /\ pc = step
    /\ IF ~target_path_or_none
       THEN /\ pc' = then
            /\ UNCHANGED <<fs, locals, ret>>
       ELSE IF image.none
       THEN /\ Except(step)
            /\ UNCHANGED fs
       ELSE /\ fs' = [fs EXCEPT ![png] = File(image.data)]
            /\ pc' = then
            /\ UNCHANGED <<locals, ret>>
    /\ UNCHANGED <<args, slide, call, segments, description, filtered_description>>

SaveLabelImage ==
    SaveImage("save_label", args.label_image_path, locals.label_image, label_png, "macro")

\* macro_image = delete_associated_image(tmp_file, 'macro', keep_image_entry=False)
DeleteMacro ==
    /\ pc = "macro"
    /\ \E r \in {delete_associated_image(fs[tmp_file].data, MacroType, FALSE)} :
           /\ fs' = [fs EXCEPT ![tmp_file] = File(r.file)]
           /\ IF r.raised # ""
              THEN Except("macro")
              ELSE /\ locals' = Completed("macro", [locals EXCEPT !.macro_image = Image(r)])
                   /\ pc' = "save_macro"
                   /\ UNCHANGED ret
    /\ UNCHANGED <<args, slide, call, segments, description, filtered_description>>

SaveMacroImage ==
    SaveImage("save_macro", args.macro_image_path, locals.macro_image, macro_png, "move")

\* shutil.move(tmp_file, deident_file_path): a rename within dst_path.
Move ==
    /\ pc = "move"
    /\ fs' = [p \in Paths |-> IF p = deident_file_path THEN fs[tmp_file]
                              ELSE IF p = tmp_file THEN Absent
                              ELSE fs[p]]
    /\ pc' = "hash"
    /\ UNCHANGED <<locals, ret, args, slide, call, segments, description, filtered_description>>

\* hash_sha1_after = compute_hash(deident_file_path) if args.hash_after else ''
HashAfter ==
    /\ pc = "hash"
    /\ locals' = [locals EXCEPT !.hash_sha1_after =
                      IF args.hash_after # 0 THEN fs[deident_file_path].data ELSE <<>>]
    /\ pc' = "metadata"
    /\ UNCHANGED <<fs, ret, args, slide, call, segments, description, filtered_description>>

\* if args.identified_metadata_path is not None: decode(label_image) raises on
\* None; else the JSON is written.  Then return True.
WriteMetadata ==
    /\ pc = "metadata"
    /\ IF ~args.identified_metadata_path
       THEN /\ pc' = "returned"
            /\ ret' = "True"
            /\ UNCHANGED <<fs, locals>>
       ELSE IF locals.label_image.none
       THEN /\ Except("metadata")
            /\ UNCHANGED fs
       ELSE /\ fs' = [fs EXCEPT ![metadata_json] = File(locals.hash_sha1_before)]
            /\ pc' = "returned"
            /\ ret' = "True"
            /\ UNCHANGED locals
    /\ UNCHANGED <<args, slide, call, segments, description, filtered_description>>

NextOrch ==
    \/ CopyWithHash
    \/ FilterDescriptionTags
    \/ DeleteLabel
    \/ SaveLabelImage
    \/ DeleteMacro
    \/ SaveMacroImage
    \/ Move
    \/ HashAfter
    \/ WriteMetadata

SpecOrch == InitOrch /\ [][NextOrch]_vars

(***************************************************************************)
(* Properties of deident_svs_file (under SpecOrch)                         *)
(***************************************************************************)
\* C4: a file exists at deident_file_path only if the copy, the description
\* filter, the label redaction and the macro redaction have all completed on
\* the working copy (the move has put it there); if one of those steps
\* failed, nothing is at the output path.
C4_OutputOnlyAfterRedaction ==
    /\ fs[deident_file_path].exists =>
           /\ RedactionSteps \subseteq locals.completed
           /\ pc \in {"hash", "metadata", "returned"}
    /\ locals.failed \in RedactionSteps => ~fs[deident_file_path].exists

\* A slide with a label and a macro page has been processed: the output is
\* there, with the macro page gone from its chain, and True was returned.
C4_Witness ==
    /\ pc = "returned" /\ ret = "True"
    /\ fs[deident_file_path].exists
    /\ ~locals.label_image.none /\ ~locals.macro_image.none
    /\ Len(Pages(fs[original_file_path].data)) = 3
    /\ Len(Pages(fs[deident_file_path].data)) = 2

\* C5: when deident_svs_file reports failure, the working copy no longer
\* exists once it has returned.
C5_WorkingCopyDiscarded ==
    (pc = "returned" /\ ret = "False") => ~fs[tmp_file].exists

\* C6: a slide without a label page or without a macro page is still
\* processed to the end: when the copy, the filter and the two redactions did
\* not fail, True is returned and the output is in place, whichever of the
\* label image, macro image and metadata destinations are configured.
C6_AbsenceIsNotAnError ==
    ( /\ pc = "returned"
      /\ locals.failed \notin RedactionSteps
      /\ locals.label_image.none \/ locals.macro_image.none ) =>
        /\ ret = "True"
        /\ fs[deident_file_path].exists

=============================================================================
